---- MODULE Spec2Model ----
(***************************************************************************)
(* civic-ai-engine (src/main.py): the intent classifier, the complaint     *)
(* analysis pipeline, the session store and the chat dialogue handler.     *)
(*                                                                         *)
(* Python strings are sequences of one-character strings, so that lower(), *)
(* strip(), split() and the substring test are computed, not assumed.      *)
(* A dict is a function whose DOMAIN is its key set; None and the empty    *)
(* dict are both the empty function (the code only tests them with `not`). *)
(***************************************************************************)
EXTENDS Integers, Sequences, FiniteSets, TLC

VARIABLES
    whatsapp_conversations,  \* main.py:35  user_phone -> session dict
    intent_files,            \* the intents/*.txt resources: intent name -> set of lines
    startup_files,           \* what intent_files held when the process started
    edits,                   \* number of resource edits made while the process runs
    last,                    \* the request handled last, with its outcome
    tasks,                   \* in-flight webhook coroutines on the event loop
    issued                   \* complaint id -> how many times it was issued (1, or 2 for more)

vars == <<whatsapp_conversations, intent_files, startup_files, edits, last, tasks, issued>>

(***************************************************************************)
(* Bounds of the model.                                                    *)
(***************************************************************************)
MaxEdits == 1
NumTasks == 2

(***************************************************************************)
(* Python string primitives.                                               *)
(***************************************************************************)
Whitespace == {" ", "\t", "\n"}

UpperToLower ==
    [A |-> "a", B |-> "b", C |-> "c", D |-> "d", E |-> "e", F |-> "f", G |-> "g",
     H |-> "h", I |-> "i", J |-> "j", K |-> "k", L |-> "l", M |-> "m", N |-> "n",
     O |-> "o", P |-> "p", Q |-> "q", R |-> "r", S |-> "s", T |-> "t", U |-> "u",
     V |-> "v", W |-> "w", X |-> "x", Y |-> "y", Z |-> "z"]

\* str.lower()
lower(s) == [i \in 1..Len(s) |-> IF s[i] \in DOMAIN UpperToLower THEN UpperToLower[s[i]] ELSE s[i]]

SetMin(S) == CHOOSE m \in S : \A n \in S : m <= n
SetMax(S) == CHOOSE m \in S : \A n \in S : m >= n

\* str.strip(): drop the leading and the trailing whitespace
strip(s) ==
    LET keep == {i \in 1..Len(s) : s[i] \notin Whitespace}
    IN  IF keep = {} THEN <<>> ELSE SubSeq(s, SetMin(keep), SetMax(keep))

\* set(str.split()): the maximal runs of non-whitespace characters
split_set(s) ==
    LET starts == {i \in 1..Len(s) :
                      s[i] \notin Whitespace /\ (i = 1 \/ s[i - 1] \in Whitespace)}
        end(i) == SetMin({j \in i..Len(s) : j = Len(s) \/ s[j + 1] \in Whitespace})
    IN  {SubSeq(s, i, end(i)) : i \in starts}

\* `keyword in text`: substring containment
contains(text, keyword) ==
    \E i \in 1..(Len(text) - Len(keyword) + 1) :
        SubSeq(text, i, i + Len(keyword) - 1) = keyword

\* (mutant of last_segment: split(':')[1], the segment after the first colon)
last_segment_first(s) ==
    LET colons == {i \in 1..Len(s) : s[i] = ":"}
        later == {i \in colons : i > SetMin(colons)}
    IN  IF colons = {} THEN s
        ELSE SubSeq(s, SetMin(colons) + 1,
                    IF later = {} THEN Len(s) ELSE SetMin(later) - 1)

\* str.split(':')[-1]: the segment after the last colon
last_segment(s) ==
    LET colons == {i \in 1..Len(s) : s[i] = ":"}
    IN  IF colons = {} THEN s ELSE SubSeq(s, SetMax(colons) + 1, Len(s))

(***************************************************************************)
(* Python dict primitives.                                                 *)
(***************************************************************************)
None == << >>

\* d[k] = v
set_item(d, k, v) == [f \in (DOMAIN d) \cup {k} |-> IF f = k THEN v ELSE d[f]]

\* d.pop(k, None)
pop(d, k) == [f \in (DOMAIN d) \ {k} |-> d[f]]

\* d.get(k) for a dict of dicts
get(d, k) == IF k \in DOMAIN d THEN d[k] ELSE None

\* d.get(k) for a dict of strings; "None" stands for None
get_str(d, k) == IF k \in DOMAIN d THEN d[k] ELSE "None"

\* `not d`
falsy(d) == DOMAIN d = {}

(***************************************************************************)
(* String literals of the program and of the inputs.                       *)
(***************************************************************************)
kw_urgent == <<"u", "r", "g", "e", "n", "t">>
kw_dangerous == <<"d", "a", "n", "g", "e", "r", "o", "u", "s">>
kw_hazard == <<"h", "a", "z", "a", "r", "d">>
kw_fire == <<"f", "i", "r", "e">>
kw_leak == <<"l", "e", "a", "k">>
kw_exposed == <<"e", "x", "p", "o", "s", "e", "d">>
kw_accident == <<"a", "c", "c", "i", "d", "e", "n", "t">>
kw_unsafe == <<"u", "n", "s", "a", "f", "e">>
kw_sewage == <<"s", "e", "w", "a", "g", "e">>
kw_overflow == <<"o", "v", "e", "r", "f", "l", "o", "w">>

high_priority_keywords ==
    {kw_urgent, kw_dangerous, kw_hazard, kw_fire, kw_leak, kw_exposed,
     kw_accident, kw_unsafe, kw_sewage, kw_overflow}

whatsapp_title == <<"W", "h", "a", "t", "s", "A", "p", "p", " ", "C", "o", "m", "p", "l", "a", "i", "n", "t">>

\* lines of the intent resources
ln_complaint == <<"c", "o", "m", "p", "l", "a", "i", "n", "t">>
ln_fire_padded == <<"f", "i", "r", "e", " ">>
ln_status == <<"s", "t", "a", "t", "u", "s">>
ln_hello_padded == <<" ", "h", "e", "l", "l", "o", " ">>
ln_blank == <<" ">>

\* message bodies
body_fire_complaint == <<"F", "i", "r", "e", " ", "c", "o", "m", "p", "l", "a", "i", "n", "t">>
body_complaint_status == <<"c", "o", "m", "p", "l", "a", "i", "n", "t", " ", "s", "t", "a", "t", "u", "s">>
body_status_padded == <<" ", "s", "t", "a", "t", "u", "s", " ">>
body_hello == <<"H", "e", "l", "l", "o">>

Bodies == {body_fire_complaint, body_complaint_status, body_status_padded, body_hello}

\* From values: two users, one of them under two spellings
from_1 == <<"w", "a", ":", "+", "1">>
from_2 == <<"w", "a", ":", "+", "2">>
from_2_nested == <<"w", ":", "a", ":", "+", "2">>

\* the requests the webhook receives: the first user sends every body, the
\* second, who is there for what a request does to other users' entries,
\* sends one of them
Requests == ({from_1} \X Bodies) \cup {<<from_2_nested, body_status_padded>>}

\* the requests that overlap in time: one user, under both spellings
ConcurrentRequests ==
    {from_2, from_2_nested} \X {body_fire_complaint, body_status_padded, body_hello}

\* the analyze endpoint's inputs
title_gas == <<"G", "a", "s">>
title_unsafe == <<"U", "N", "S", "A", "F", "E">>
title_sewage == <<"S", "e", "w", "a", "g", "e", " ", "O", "v", "e", "r", "f", "l", "o", "w">>
title_empty == << >>
desc_leaking == <<"i", "s", " ", "L", "e", "a", "k", "i", "n", "g">>
desc_smell == <<"s", "m", "e", "l", "l">>
desc_wire == <<"U", "R", "G", "E", "N", "T", " ", "e", "x", "p", "o", "s", "e", "d", " ", "w", "i", "r", "e", " ", "h", "a", "z", "a", "r", "d">>
desc_crash == <<"D", "a", "n", "g", "e", "r", "o", "u", "s", " ", "a", "c", "c", "i", "d", "e", "n", "t">>
desc_split == <<"f", "i", "r", " ", "e", " ", "u", "n", " ", "s", "a", "f", "e">>
desc_fire == <<"o", "n", " ", "F", "I", "R", "E">>

Titles == {title_gas, title_unsafe, title_sewage, title_empty}
Descriptions == {desc_leaking, desc_smell, desc_wire, desc_crash, desc_split, desc_fire}

\* labels the category classifier can return
Categories == {"Roads", "Water"}

\* what one request gets from the two classifiers: their labels, and which
\* of them raises, if any
NoOracle == [coherence |-> 1, category |-> "Roads", failure |-> "none"]

\* (a label that is never read, because an earlier call raised or the text
\* was judged invalid, is left at NoOracle's)
Oracles ==
    {o \in [coherence : {0, 1}, category : Categories,
            failure : {"none", "coherence", "category"}] :
        /\ o.failure = "coherence" => o.coherence = NoOracle.coherence
        /\ (o.failure = "coherence" \/ o.coherence = 0) => o.category = NoOracle.category
        /\ o.coherence = 0 => o.failure # "category"}

(***************************************************************************)
(* Intent detection (main.py:51-65).                                       *)
(***************************************************************************)
\* line 57: the stripped, non-blank lines of one resource
keywords(lines) == {strip(l) : l \in lines} \ {<< >>}

\* line 53
message_words(message) == split_set(lower(message))

\* line 58
score(words, lines) == Cardinality(words \cap keywords(lines))

\* (mutant of scored: an intent that does not overlap is scored too)
scored_nonnegative(n) == n >= 0

\* line 59: only an overlapping intent gets an entry in scores
scored(n) == n > 0

\* glob.glob("intents/*.txt") lists the resources in an order the file
\* system decides: any permutation of the names
Orders(files) ==
    {o \in [1..Cardinality(DOMAIN files) -> DOMAIN files] :
        \A i, j \in DOMAIN o : o[i] = o[j] => i = j}

\* (mutant of first_max: the first key that scored, whatever its score)
first_max_any(names, scores) == names[1]

\* line 63: max() over a dict returns the first key, in insertion order,
\* whose score is the greatest
first_max(names, scores) ==
    LET best == {i \in 1..Len(names) :
                    \A j \in 1..Len(names) : scores[names[i]] >= scores[names[j]]}
    IN  names[SetMin(best)]

\* lines 52-60: every resource's score; scores keeps those that overlap
all_scores(message, files) ==
    [name \in DOMAIN files |-> score(message_words(message), files[name])]

detect_intent(message, files, order) ==
    LET every == all_scores(message, files)
        names == SelectSeq(order, LAMBDA name : scored(every[name]))
    IN  IF Len(names) = 0 THEN "unknown" ELSE first_max(names, every)

(***************************************************************************)
(* Analysis pipeline (main.py:68-92).                                      *)
(***************************************************************************)
resolution_days == 5

\* (mutant of text_lower: the keywords are looked for in the text as typed)
text_lower_as_typed(complaint_text) == complaint_text

\* line 71
text_lower(complaint_text) == lower(complaint_text)

\* lines 79-82
priority_of(text) ==
    IF \E keyword \in high_priority_keywords : contains(text, keyword)
    THEN "High" ELSE "Medium"

NoAnalysis == [raised |-> FALSE, calls |-> << >>, result |-> None]

\* (mutant of analyze_complaint_web: the category is predicted before the
\* validity gate and returned with an invalid result too)
analyze_complaint_web_ungated(title, description, oracle) ==
    IF oracle.failure # "none"
    THEN [raised |-> TRUE, calls |-> <<"coherence", "category">>, result |-> None]
    ELSE IF oracle.coherence = 0
    THEN [raised |-> FALSE, calls |-> <<"coherence", "category">>,
          result |-> [isComplaintValid |-> FALSE,
                      reasoning |-> "Invalid complaint text.",
                      suggestedCategory |-> oracle.category]]
    ELSE [raised |-> FALSE, calls |-> <<"coherence", "category">>,
          result |-> [priority |-> priority_of(text_lower(title \o <<" ">> \o description)),
                      isComplaintValid |-> TRUE,
                      reasoning |-> "",
                      suggestedCategory |-> oracle.category,
                      estimatedResolutionDays |-> resolution_days]]

\* raised: a classifier raised and the exception left the function;
\* calls: the classifiers invoked, in order; result: the dict returned
analyze_complaint_web(title, description, oracle) ==
    LET complaint_text == title \o <<" ">> \o description
    IN  IF oracle.failure = "coherence"
        THEN [raised |-> TRUE, calls |-> <<"coherence">>, result |-> None]
        ELSE IF oracle.coherence = 0
        THEN [raised |-> FALSE, calls |-> <<"coherence">>,
              result |-> [isComplaintValid |-> FALSE,
                          reasoning |-> "Invalid complaint text."]]
        ELSE IF oracle.failure = "category"
        THEN [raised |-> TRUE, calls |-> <<"coherence", "category">>, result |-> None]
        ELSE [raised |-> FALSE, calls |-> <<"coherence", "category">>,
              result |-> [priority |-> priority_of(text_lower(complaint_text)),
                          isComplaintValid |-> TRUE,
                          reasoning |-> "",
                          suggestedCategory |-> oracle.category,
                          estimatedResolutionDays |-> resolution_days]]

(***************************************************************************)
(* The chat handler (main.py:95-177).  A reply is the f-string's parts in  *)
(* order: the literal pieces as strings, the interpolated values between.  *)
(***************************************************************************)
id_low == 1000
id_high == 9999

\* random.randint(a, b), both ends included: the values at and next to the ends
randint(a, b) == {a, a + 1, b - 1, b}

\* (mutant of complaint_ids: the lower end of the range is lost)
complaint_ids_from_zero == randint(0, id_high)

\* (mutant of complaint_ids: an id already issued is not drawn again)
complaint_ids_unissued == randint(id_low, id_high) \ DOMAIN issued

\* line 158
complaint_ids == randint(id_low, id_high)

\* (mutant of read_request: the body is used as it was sent, not stripped)
read_request_unstripped(store, From, Body) ==
    [user_phone |-> last_segment(From),
     user_message |-> Body,
     session |-> get(store, last_segment(From))]

\* lines 97-100: what the handler reads before it branches
read_request(store, From, Body) ==
    [user_phone |-> last_segment(From),
     user_message |-> strip(Body),
     session |-> get(store, last_segment(From))]

\* lines 125-126, 136-139: the two places that classify the message
needs_intent(session) ==
    falsy(session) \/ get_str(session, "stage") = "greeting"

\* the branch of lines 125-172 taken
route(session, intent) ==
    IF falsy(session)
    THEN IF intent = "file_complaint" THEN "flow"
         ELSE IF intent = "check_status" THEN "ask_id"
         ELSE "welcome"
    ELSE IF get_str(session, "stage") = "greeting"
    THEN IF intent = "file_complaint" THEN "flow"
         ELSE IF intent = "check_status" THEN "greeting_ask_id"
         ELSE "not_understood"
    ELSE IF get_str(session, "stage") = "get_description" THEN "flow"
    ELSE IF get_str(session, "stage") = "get_location" THEN "location"
    ELSE IF get_str(session, "stage") = "get_password" THEN "password"
    ELSE IF get_str(session, "stage") = "get_status_id" THEN "status_id"
    ELSE "fall_through"

\* lines 110-120: the session the complaint flow stores
complaint_session(complaint_desc, result) ==
    IF ~falsy(result) /\ result.isComplaintValid
    THEN [stage |-> "get_location", description |-> complaint_desc,
          category |-> result.suggestedCategory, priority |-> result.priority]
    ELSE [stage |-> "get_location", description |-> complaint_desc,
          category |-> "unknown", priority |-> "medium"]

\* (mutant of start_complaint_flow: the classifiers' exception is caught and
\* the complaint handled as an invalid one)
start_complaint_flow_catching(store, user_phone, complaint_desc, oracle) ==
    CHOOSE r \in
        {CHOOSE q \in
            {[store |-> set_item(store, user_phone, session),
              outcome |-> "reply",
              reply |-> <<"Got it. I've categorized this as a '", session.category,
                          "' issue with '", session.priority,
                          "' priority. What is the location of this issue?">>,
              analysis |-> analysis] :
             session \in {complaint_session(complaint_desc, analysis.result)}} : TRUE :
         analysis \in {analyze_complaint_web(whatsapp_title, complaint_desc, oracle)}} : TRUE

\* (mutant of start_complaint_flow: a complaint judged invalid is turned away
\* and the dialogue is left where it was)
start_complaint_flow_rejecting(store, user_phone, complaint_desc, oracle) ==
    CHOOSE r \in
        {IF analysis.raised
         THEN [store |-> store, outcome |-> "error", reply |-> << >>,
               analysis |-> analysis]
         ELSE IF ~analysis.result.isComplaintValid
         THEN [store |-> store, outcome |-> "reply",
               reply |-> <<"Invalid complaint text.">>, analysis |-> analysis]
         ELSE CHOOSE q \in
                {[store |-> set_item(store, user_phone, session),
                  outcome |-> "reply",
                  reply |-> <<"Got it. I've categorized this as a '", session.category,
                              "' issue with '", session.priority,
                              "' priority. What is the location of this issue?">>,
                  analysis |-> analysis] :
                 session \in {complaint_session(complaint_desc, analysis.result)}} : TRUE :
         analysis \in {analyze_complaint_web(whatsapp_title, complaint_desc, oracle)}} : TRUE

\* lines 103-123, then 174-177.  An exception raised by a classifier is not
\* caught anywhere: it ends the request before session is rebound.
\* (analysis and session are bound as values, so each is computed once)
start_complaint_flow(store, user_phone, complaint_desc, oracle) ==
    CHOOSE r \in
        {IF analysis.raised
         THEN [store |-> store, outcome |-> "error", reply |-> << >>,
               analysis |-> analysis]
         ELSE CHOOSE q \in
                {[store |-> set_item(store, user_phone, session),
                  outcome |-> "reply",
                  reply |-> <<"Got it. I've categorized this as a '", session.category,
                              "' issue with '", session.priority,
                              "' priority. What is the location of this issue?">>,
                  analysis |-> analysis] :
                 session \in {complaint_session(complaint_desc, analysis.result)}} : TRUE :
         analysis \in {analyze_complaint_web(whatsapp_title, complaint_desc, oracle)}} : TRUE

\* what a request that returns leaves: the store, and the response text
said(text, store) ==
    [store |-> store, outcome |-> "reply", reply |-> text, analysis |-> NoAnalysis]

\* (mutant of ask_id: the stage is stored under a name no branch handles)
ask_id_misspelt(store, req) ==
    said(<<"To check the status of a complaint, please provide your Complaint ID.">>,
         set_item(store, req.user_phone, [stage |-> "get_status"]))

\* lines 129-131, then 174-177
ask_id(store, req) ==
    said(<<"To check the status of a complaint, please provide your Complaint ID.">>,
         set_item(store, req.user_phone, [stage |-> "get_status_id"]))

\* (mutant of welcome: the new session is not stored)
welcome_unsaved(store, req) ==
    said(<<"Welcome to the Smart Grievance System! How can I help you today? You can say 'file a complaint' or 'check status'.">>,
         store)

\* lines 132-134, then 174-177
welcome(store, req) ==
    said(<<"Welcome to the Smart Grievance System! How can I help you today? You can say 'file a complaint' or 'check status'.">>,
         set_item(store, req.user_phone, [stage |-> "greeting"]))

\* (mutant of greeting_ask_id: the prompt is sent but the stage is not advanced)
greeting_ask_id_unadvanced(store, req) ==
    said(<<"To check the status of a complaint, please provide your Complaint ID.">>,
         set_item(store, req.user_phone, req.session))

\* lines 142-144, then 174-177
greeting_ask_id(store, req) ==
    said(<<"To check the status of a complaint, please provide your Complaint ID.">>,
         set_item(store, req.user_phone, set_item(req.session, "stage", "get_status_id")))

\* (mutant of not_understood: the conversation is dropped)
not_understood_forgets(store, req) ==
    said(<<"I'm sorry, I didn't understand. You can say 'file a complaint' or 'check status'.">>,
         pop(store, req.user_phone))

\* lines 145-146, then 174-177
not_understood(store, req) ==
    said(<<"I'm sorry, I didn't understand. You can say 'file a complaint' or 'check status'.">>,
         set_item(store, req.user_phone, req.session))

\* (mutant of store_location: the stage is advanced but the message is not kept)
store_location_stage_only(store, req) ==
    said(<<"Thank you. Finally, please set a simple password to secure this complaint.">>,
         set_item(store, req.user_phone,
                  set_item(req.session, "stage", "get_password")))

\* lines 151-154, then 174-177
store_location(store, req) ==
    said(<<"Thank you. Finally, please set a simple password to secure this complaint.">>,
         set_item(store, req.user_phone,
                  set_item(set_item(req.session, "location", req.user_message),
                           "stage", "get_password")))

\* lines 156-166
file_complaint(store, req, rnd) ==
    said(<<"Excellent! Your complaint has been filed. Your Complaint ID is: *",
           <<"WACMP-", rnd>>, "*. Please save this ID.">>,
         pop(store, req.user_phone))

\* (mutant of check_status_id: the session is written back, not removed)
check_status_id_kept(store, req) ==
    said(<<"Checking status for complaint ", req.user_message,
           "... (This feature is in development).">>,
         set_item(store, req.user_phone, req.session))

\* lines 168-172
check_status_id(store, req) ==
    said(<<"Checking status for complaint ", req.user_message,
           "... (This feature is in development).">>,
         pop(store, req.user_phone))

\* no branch of lines 138-172 matches the stage: lines 174-177 alone
fall_through(store, req) ==
    said(<< >>, set_item(store, req.user_phone, req.session))

\* lines 125-177 after the message is classified
finish(store, req, intent, oracle, rnd) ==
    CHOOSE r \in
        {CASE path = "flow" ->
                  start_complaint_flow(store, req.user_phone, req.user_message, oracle)
           [] path = "ask_id" -> ask_id(store, req)
           [] path = "welcome" -> welcome(store, req)
           [] path = "greeting_ask_id" -> greeting_ask_id(store, req)
           [] path = "not_understood" -> not_understood(store, req)
           [] path = "location" -> store_location(store, req)
           [] path = "password" -> file_complaint(store, req, rnd)
           [] path = "status_id" -> check_status_id(store, req)
           [] OTHER -> fall_through(store, req) :
         path \in {route(req.session, intent)}} : TRUE

\* lines 126, 139: the message is classified only where the code does it
classify(req, files, order) ==
    IF needs_intent(req.session)
    THEN detect_intent(req.user_message, files, order) ELSE "none"

\* the whole handler, from the request to the response
whatsapp_bot(store, files, From, Body, order, oracle, rnd) ==
    CHOOSE r \in
        {finish(store, req, classify(req, files, order), oracle, rnd) :
         req \in {read_request(store, From, Body)}} : TRUE

\* the inputs a request consumes: an enumeration order when it classifies,
\* classifier outcomes when it analyses, a random number when it issues an id
OrdersFor(req, files) == IF needs_intent(req.session) THEN Orders(files) ELSE {<< >>}

OraclesFor(path) == IF path = "flow" THEN Oracles ELSE {NoOracle}

RandomsFor(path) == IF path = "password" THEN complaint_ids ELSE {id_low}

(***************************************************************************)
(* The process: requests handled one at a time, and the intent resources   *)
(* edited from outside while it runs.                                      *)
(***************************************************************************)
StartupFiles ==
    [file_complaint |-> {ln_complaint, ln_fire_padded, ln_blank},
     check_status |-> {ln_status}]

\* the edits made to the resources while the process runs: one is created,
\* one is rewritten, one is deleted
FileWrites ==
    {<<"greeting", {ln_hello_padded, ln_status, ln_complaint}>>,
     <<"check_status", {ln_status, ln_complaint}>>}

FileRemovals == {"file_complaint"}

IdleTasks == [t \in 1..NumTasks |-> [pc |-> "idle"]]

Init ==
    /\ whatsapp_conversations = << >>
    /\ intent_files = StartupFiles
    /\ startup_files = StartupFiles
    /\ edits = 0
    /\ last = [endpoint |-> "none"]
    /\ tasks = IdleTasks
    /\ issued = << >>

\* POST /api/whatsapp/webhook
Webhook(From, Body) ==
    \E req \in {read_request(whatsapp_conversations, From, Body)} :
        \E order \in OrdersFor(req, intent_files) :
            \E intent \in {classify(req, intent_files, order)} :
                \E oracle \in OraclesFor(route(req.session, intent)),
                   rnd \in RandomsFor(route(req.session, intent)) :
                    \E r \in {finish(whatsapp_conversations, req, intent, oracle, rnd)} :
                        /\ whatsapp_conversations' = r.store
                        /\ last' = [endpoint |-> "webhook", From |-> From, Body |-> Body,
                                    user_phone |-> req.user_phone,
                                    user_message |-> req.user_message,
                                    session |-> req.session, intent |-> intent,
                                    oracle |-> oracle,
                                    outcome |-> r.outcome, reply |-> r.reply,
                                    analysis |-> r.analysis]
                        /\ UNCHANGED <<intent_files, startup_files, edits, tasks>>

\* POST /api/ai/analyze
Analyze(title, description) ==
    \E oracle \in Oracles :
        LET a == analyze_complaint_web(title, description, oracle)
        IN  /\ last' = [endpoint |-> "analyze", title |-> title,
                        description |-> description,
                        outcome |-> IF a.raised THEN "error" ELSE "reply",
                        oracle |-> oracle, analysis |-> a]
            /\ UNCHANGED <<whatsapp_conversations, intent_files, startup_files, edits,
                           tasks, issued>>

\* an intents/<name>.txt is written or created while the process runs
WriteIntentFile(name, lines) ==
    /\ edits < MaxEdits
    /\ (name \in DOMAIN intent_files => intent_files[name] # lines)
    /\ intent_files' = set_item(intent_files, name, lines)
    /\ edits' = edits + 1
    /\ last' = [endpoint |-> "edit"]
    /\ UNCHANGED <<whatsapp_conversations, startup_files, tasks, issued>>

\* an intents/<name>.txt is deleted while the process runs
RemoveIntentFile(name) ==
    /\ edits < MaxEdits
    /\ name \in DOMAIN intent_files
    /\ intent_files' = pop(intent_files, name)
    /\ edits' = edits + 1
    /\ last' = [endpoint |-> "edit"]
    /\ UNCHANGED <<whatsapp_conversations, startup_files, tasks, issued>>

Next ==
    \/ \E request \in Requests : Webhook(request[1], request[2]) /\ UNCHANGED issued
    \/ \E write \in FileWrites : WriteIntentFile(write[1], write[2])
    \/ \E name \in FileRemovals : RemoveIntentFile(name)

Spec == Init /\ [][Next]_vars

\* the analyze endpoint on its own
NextAnalyze ==
    \E title \in Titles, description \in Descriptions : Analyze(title, description)

SpecAnalyze == Init /\ [][NextAnalyze]_vars

\* both endpoints served by the one process, over a store that has entries
EndpointTitles == {title_gas}
EndpointDescriptions == {desc_smell, desc_fire}

NextEndpoints ==
    \/ \E request \in Requests : Webhook(request[1], request[2]) /\ UNCHANGED issued
    \/ \E title \in EndpointTitles, description \in EndpointDescriptions :
           Analyze(title, description)

SpecEndpoints == Init /\ [][NextEndpoints]_vars

\* the complaint flow run again and again, with a tally of the ids it has
\* given out.  The program keeps no such tally (lines 156-166): issued is
\* the observer's.
IssueRequests == {<<from_1, body_fire_complaint>>}

Tally(reply) ==
    IF Len(reply) = 3 /\ reply[1] = "Excellent! Your complaint has been filed. Your Complaint ID is: *"
    THEN set_item(issued, reply[2][2],
                  IF reply[2][2] \in DOMAIN issued THEN 2 ELSE 1)
    ELSE issued

WebhookIssuing(From, Body) ==
    /\ Webhook(From, Body)
    /\ issued' = Tally(last'.reply)

NextIssue ==
    \E request \in IssueRequests : WebhookIssuing(request[1], request[2])

SpecIssue == Init /\ [][NextIssue]_vars

(***************************************************************************)
(* Overlapping webhook requests.  Both endpoints are coroutines on one     *)
(* event loop: a coroutine runs until it awaits something that suspends,   *)
(* and only then can another one run.                                      *)
(***************************************************************************)
\* (mutant of await_suspends: the analysis is awaited on a worker thread, so
\* the handler is parked at line 104 while other handlers run)
await_suspends_on_analysis == TRUE

\* The only awaits of the handler (lines 104, 128, 141, 149) await
\* start_complaint_flow and analyze_complaint_web, whose bodies await nothing
\* else (predict is an ordinary call): the await never hands control back to
\* the event loop.
await_suspends == FALSE

\* a request is accepted and its handler scheduled
Arrive(t, From, Body) ==
    /\ tasks[t].pc = "idle"
    /\ tasks' = [tasks EXCEPT ![t] = [pc |-> "pending", From |-> From, Body |-> Body]]
    /\ UNCHANGED <<whatsapp_conversations, intent_files, startup_files, edits, last,
                   issued>>

\* the event loop runs handler t until it suspends or returns: from line 97
\* when it has not started, from the await of line 104 when it is parked there
Run(t) ==
    IF tasks[t].pc = "pending"
    THEN \E req \in {read_request(whatsapp_conversations, tasks[t].From, tasks[t].Body)} :
           \E order \in OrdersFor(req, intent_files) :
             \E intent \in {classify(req, intent_files, order)} :
               \E oracle \in OraclesFor(route(req.session, intent)),
                  rnd \in RandomsFor(route(req.session, intent)) :
                 IF route(req.session, intent) = "flow" /\ await_suspends
                 THEN /\ tasks' = [tasks EXCEPT ![t] =
                             [pc |-> "suspended", From |-> tasks[t].From,
                              Body |-> tasks[t].Body, req |-> req, order |-> order,
                              oracle |-> oracle, rnd |-> rnd]]
                      /\ UNCHANGED <<whatsapp_conversations, intent_files,
                                     startup_files, edits, last, issued>>
                 ELSE \E r \in {finish(whatsapp_conversations, req, intent, oracle, rnd)} :
                        /\ whatsapp_conversations' = r.store
                        /\ tasks' = [tasks EXCEPT ![t] =
                               [pc |-> "done", From |-> tasks[t].From,
                                Body |-> tasks[t].Body, order |-> order,
                                oracle |-> oracle, rnd |-> rnd,
                                outcome |-> r.outcome, reply |-> r.reply]]
                        /\ UNCHANGED <<intent_files, startup_files, edits, last, issued>>
    ELSE /\ tasks[t].pc = "suspended"
         /\ \E r \in {start_complaint_flow(whatsapp_conversations,
                                           tasks[t].req.user_phone,
                                           tasks[t].req.user_message,
                                           tasks[t].oracle)} :
              /\ whatsapp_conversations' = r.store
              /\ tasks' = [tasks EXCEPT ![t] =
                     [pc |-> "done", From |-> tasks[t].From, Body |-> tasks[t].Body,
                      order |-> tasks[t].order, oracle |-> tasks[t].oracle,
                      rnd |-> tasks[t].rnd, outcome |-> r.outcome, reply |-> r.reply]]
              /\ UNCHANGED <<intent_files, startup_files, edits, last, issued>>

NextConcurrent ==
    \/ \E t \in 1..NumTasks, request \in ConcurrentRequests :
           Arrive(t, request[1], request[2])
    \/ \E t \in 1..NumTasks : Run(t)

SpecConcurrent == Init /\ [][NextConcurrent]_vars

(***************************************************************************)
(* Properties.                                                             *)
(***************************************************************************)
Stage(session) == get_str(session, "stage")

Stored(user_phone) == get(whatsapp_conversations, user_phone)

NonEmpty(reply) == Len(reply) > 0 /\ reply[1] # ""

\* the reply is the confirmation, with an id WACMP-<n>, n of four digits
HasComplaintId(reply) ==
    /\ Len(reply) = 3
    /\ Len(reply[2]) = 2
    /\ reply[2][1] = "WACMP-"
    /\ reply[2][2] \in 1000..9999

\* C1: a user without a session who sends a message classified file_complaint
\* gets a session at stage get_location (when the request returns a reply);
\* any message at get_location moves the session to get_password; any
\* message at get_password is answered with an id WACMP-<1000..9999> and
\* leaves the user without a session.
C1_ComplaintFlow ==
    last.endpoint = "webhook" =>
        /\ (falsy(last.session) /\ last.intent = "file_complaint" /\ last.outcome = "reply")
              => Stage(Stored(last.user_phone)) = "get_location"
        /\ Stage(last.session) = "get_location"
              => last.outcome = "reply" /\ Stage(Stored(last.user_phone)) = "get_password"
        /\ Stage(last.session) = "get_password"
              => /\ last.outcome = "reply"
                 /\ HasComplaintId(last.reply)
                 /\ last.user_phone \notin DOMAIN whatsapp_conversations

C1_Witness ==
    /\ last.endpoint = "webhook"
    /\ Stage(last.session) = "get_password"
    /\ last.session.description = strip(body_fire_complaint)
    /\ last.session.location = strip(body_status_padded)
    /\ HasComplaintId(last.reply)
    /\ last.user_phone \notin DOMAIN whatsapp_conversations

\* C2: a user without a session who sends a message classified check_status
\* gets a session that holds stage get_status_id and nothing else; the next
\* message of that user, whatever it is, gets a non-empty reply and leaves
\* the user without a session.
C2_StatusFlow ==
    last.endpoint = "webhook" =>
        /\ (falsy(last.session) /\ last.intent = "check_status")
              => /\ last.outcome = "reply"
                 /\ Stored(last.user_phone) = [stage |-> "get_status_id"]
        /\ Stage(last.session) = "get_status_id"
              => /\ last.outcome = "reply"
                 /\ NonEmpty(last.reply)
                 /\ last.user_phone \notin DOMAIN whatsapp_conversations

C2_Witness ==
    /\ last.endpoint = "webhook"
    /\ last.session = [stage |-> "get_status_id"]
    /\ last.user_message = strip(body_fire_complaint)
    /\ NonEmpty(last.reply)
    /\ last.user_phone \notin DOMAIN whatsapp_conversations

\* the orders in which the handlers in S can run one after the other
Perms(S) ==
    {p \in [1..Cardinality(S) -> S] : \A i, j \in DOMAIN p : p[i] = p[j] => i = j}

\* The handlers ts, run one after the other from store on the inputs each
\* consumed: ok when every one gives the outcome and the reply its request
\* got, and then the store they leave.  (An order is possible only if a
\* handler that classifies its message had an enumeration order to use.)
RECURSIVE Serial(_, _)
Serial(store, ts) ==
    IF ts = << >>
    THEN [ok |-> TRUE, store |-> store]
    ELSE CHOOSE q \in
            {IF /\ t.order \in OrdersFor(read_request(store, t.From, t.Body), intent_files)
                /\ r.outcome = t.outcome
                /\ Len(r.reply) = Len(t.reply)
                /\ r.reply = t.reply
             THEN Serial(r.store, Tail(ts))
             ELSE [ok |-> FALSE, store |-> store] :
             <<t, r>> \in
                {<<x, whatsapp_bot(store, intent_files, x.From, x.Body, x.order,
                                   x.oracle, x.rnd)>> : x \in {tasks[Head(ts)]}}} : TRUE

\* C3: requests of one user that overlap are serialized: no handler is
\* about to write a session computed from an entry that another handler has
\* replaced since it was read, and the store and the replies of the handlers
\* that have returned are those of running them one after the other in some
\* order.
C3_Serialized ==
    /\ \A t \in 1..NumTasks :
          tasks[t].pc = "suspended" => Stored(tasks[t].req.user_phone) = tasks[t].req.session
    /\ \E p \in Perms({t \in 1..NumTasks : tasks[t].pc = "done"}) :
          \E s \in {Serial(<< >>, p)} : s.ok /\ s.store = whatsapp_conversations

C3_Witness ==
    /\ tasks[1].pc = "done" /\ tasks[2].pc = "done"
    /\ last_segment(tasks[1].From) = last_segment(tasks[2].From)
    /\ tasks[1].From # tasks[2].From
    /\ tasks[2].Body = body_fire_complaint
    /\ Stage(Stored(last_segment(tasks[1].From))) = "get_password"

\* C4: when a classifier raises while a chat message is handled, the request
\* ends in an error, not in a reply, and the user's entry in the session
\* store is what it was before the message (no fallback session is stored).
C4_FailurePropagates ==
    (last.endpoint = "webhook" /\ last.analysis.raised) =>
        /\ last.outcome = "error"
        /\ Len(last.reply) = 0
        /\ Stored(last.user_phone) = last.session

C4_Witness ==
    /\ last.endpoint = "webhook"
    /\ last.analysis.raised
    /\ last.analysis.calls = <<"coherence", "category">>
    /\ last.session = [stage |-> "greeting"]
    /\ Stored(last.user_phone) = [stage |-> "greeting"]
    /\ last.outcome = "error"

\* C5: when the validity classifier returns false, analyze returns a result
\* marked invalid that has no category, no priority and no resolution
\* estimate, and the category classifier is not called.
C5_InvalidShortCircuits ==
    (last.endpoint = "analyze" /\ last.oracle.failure # "coherence"
        /\ last.oracle.coherence = 0) =>
        /\ ~last.analysis.raised
        /\ last.analysis.result.isComplaintValid = FALSE
        /\ (DOMAIN last.analysis.result)
              \cap {"suggestedCategory", "priority", "estimatedResolutionDays"} = {}
        /\ \A i \in DOMAIN last.analysis.calls : last.analysis.calls[i] # "category"

C5_Witness ==
    /\ last.endpoint = "analyze"
    /\ last.oracle.coherence = 0
    /\ last.title = title_unsafe
    /\ DOMAIN last.analysis.result = {"isComplaintValid", "reasoning"}
    /\ last.analysis.calls = <<"coherence">>

\* the ten severity keywords
SeverityKeywords ==
    {kw_urgent, kw_dangerous, kw_hazard, kw_fire, kw_leak, kw_exposed,
     kw_accident, kw_unsafe, kw_sewage, kw_overflow}

MentionsSeverity(title, description) ==
    \E keyword \in SeverityKeywords :
        contains(lower(title \o <<" ">> \o description), keyword)

\* C6: the priority analyze returns is High when the lower-cased text
\* title + " " + description contains one of the ten severity keywords and
\* Medium otherwise, whatever the category classifier returns; a valid
\* complaint always gets one.
C6_PriorityFromKeywords ==
    (last.endpoint = "analyze" /\ last.outcome = "reply"
        /\ last.analysis.result.isComplaintValid) =>
        /\ "priority" \in DOMAIN last.analysis.result
        /\ last.analysis.result.priority =
              IF MentionsSeverity(last.title, last.description) THEN "High" ELSE "Medium"

C6_Witness ==
    /\ last.endpoint = "analyze"
    /\ last.outcome = "reply"
    /\ last.title = title_gas
    /\ last.description = desc_leaking
    /\ last.analysis.result.isComplaintValid
    /\ last.analysis.result.priority = "High"
    /\ last.analysis.result.suggestedCategory = "Water"

\* no resource of the index shares a word with the message
NoOverlap(message, files) ==
    \A name \in DOMAIN files :
        split_set(lower(message)) \cap keywords(files[name]) = {}

\* C7: detect_intent returns "unknown" exactly for the messages whose
\* lower-cased whitespace-separated words overlap no intent's keyword set.
C7_UnknownIffNoOverlap ==
    (last.endpoint = "webhook" /\ last.intent # "none") =>
        (last.intent = "unknown" <=> NoOverlap(last.user_message, intent_files))

C7_Witness ==
    /\ last.endpoint = "webhook"
    /\ last.intent = "unknown"
    /\ last.user_message = body_hello
    /\ NoOverlap(last.user_message, intent_files)

\* C8: detect_intent returns the same intent for a message and a keyword
\* index whatever the order in which the resources are enumerated, ties for
\* the greatest score included.
C8_DetectIsDeterministic ==
    (last.endpoint = "webhook" /\ last.intent # "none") =>
        \A order \in Orders(intent_files) :
            detect_intent(last.user_message, intent_files, order) = last.intent

\* C9: a message classified neither file_complaint nor check_status gets a
\* non-empty reply; it gives a user without a session a session that holds
\* stage greeting and nothing else, and it leaves the session of a user at
\* stage greeting as it was.
C9_OtherIntentKeepsGreeting ==
    (last.endpoint = "webhook"
        /\ last.intent \notin {"none", "file_complaint", "check_status"}) =>
        /\ last.outcome = "reply"
        /\ NonEmpty(last.reply)
        /\ falsy(last.session) => Stored(last.user_phone) = [stage |-> "greeting"]
        /\ ~falsy(last.session) => Stored(last.user_phone) = last.session

C9_Witness ==
    /\ last.endpoint = "webhook"
    /\ last.intent = "greeting"
    /\ falsy(last.session)
    /\ Stored(last.user_phone) = [stage |-> "greeting"]
    /\ NonEmpty(last.reply)

\* the intents a message can be classified as under a keyword index
Classifications(message, files) ==
    {detect_intent(message, files, order) : order \in Orders(files)}

\* C10: the keyword index is the one loaded at startup: a message is
\* classified as it would be with the resources as they were at startup,
\* whatever has been written to them since.
C10_IndexFixedAtStartup ==
    (last.endpoint = "webhook" /\ last.intent # "none") =>
        last.intent \in Classifications(last.user_message, startup_files)


(***************************************************************************)
(* C11.  In every reachable state of the store, the stage of a stored      *)
(* session determines exactly the fields it holds: only the stage at       *)
(* greeting and get_status_id; description, category and priority at       *)
(* get_location; those and location at get_password, which never holds a   *)
(* password or an id.                                                      *)
(***************************************************************************)
SessionFields(stage) ==
    CASE stage \in {"greeting", "get_status_id"} -> {"stage"}
      [] stage = "get_location" -> {"stage", "description", "category", "priority"}
      [] stage = "get_password" ->
             {"stage", "description", "category", "priority", "location"}
      [] OTHER -> {}

C11_StageDeterminesFields ==
    \A u \in DOMAIN whatsapp_conversations :
        DOMAIN whatsapp_conversations[u] =
            SessionFields(Stage(whatsapp_conversations[u]))

C11_Witness ==
    \E u, v \in DOMAIN whatsapp_conversations :
        /\ Stage(whatsapp_conversations[u]) = "get_password"
        /\ "location" \in DOMAIN whatsapp_conversations[u]
        /\ Stage(whatsapp_conversations[v]) = "get_status_id"

(***************************************************************************)
(* C12.  At stage get_location the message is not looked at: whatever it   *)
(* says, it is stored, stripped, as the location, the stage becomes        *)
(* get_password, no classifier is consulted, and description, category and *)
(* priority stay as they were.                                             *)
(***************************************************************************)
C12_LocationTakesAnyMessage ==
    (last.endpoint = "webhook" /\ Stage(last.session) = "get_location") =>
        /\ last.intent = "none"
        /\ last.analysis = NoAnalysis
        /\ last.outcome = "reply"
        /\ DOMAIN Stored(last.user_phone) = DOMAIN last.session \cup {"location"}
        /\ Stored(last.user_phone).stage = "get_password"
        /\ Stored(last.user_phone).location = strip(last.Body)
        /\ \A f \in {"description", "category", "priority"} :
               Stored(last.user_phone)[f] = last.session[f]

\* the message stored as the location is one the classifier would have
\* taken for a status request, and it was sent with surrounding blanks
C12_Witness ==
    /\ last.endpoint = "webhook"
    /\ Stage(last.session) = "get_location"
    /\ last.Body = body_status_padded
    /\ \E order \in Orders(intent_files) :
           detect_intent(strip(last.Body), intent_files, order) = "check_status"
    /\ Stage(Stored(last.user_phone)) = "get_password"

(***************************************************************************)
(* C13.  Whenever the complaint flow is started and the analysis returns   *)
(* without an error, the message is stored as the description and the      *)
(* stage becomes get_location, whether the complaint was judged valid or   *)
(* not.                                                                    *)
(***************************************************************************)
StartsFlow(session, intent) ==
    \/ (falsy(session) \/ Stage(session) = "greeting") /\ intent = "file_complaint"
    \/ Stage(session) = "get_description"

C13_FlowReachesLocation ==
    (/\ last.endpoint = "webhook"
     /\ StartsFlow(last.session, last.intent)
     /\ ~last.analysis.raised) =>
        /\ last.outcome = "reply"
        /\ Stage(Stored(last.user_phone)) = "get_location"
        /\ Stored(last.user_phone).description = last.user_message

C13_Witness ==
    /\ last.endpoint = "webhook"
    /\ StartsFlow(last.session, last.intent)
    /\ ~last.analysis.raised
    /\ ~last.analysis.result.isComplaintValid
    /\ Stage(Stored(last.user_phone)) = "get_location"

(***************************************************************************)
(* C14.  The fallback values 'unknown' and 'medium' stay inside the        *)
(* session: the reply of the complaint flow, the only one that quotes a    *)
(* category and a priority, never quotes them.                             *)
(***************************************************************************)
QuotesCategory(reply) ==
    Len(reply) = 5 /\ reply[1] = "Got it. I've categorized this as a '"

C14_FallbacksStayInternal ==
    (last.endpoint = "webhook" /\ last.outcome = "reply" /\ QuotesCategory(last.reply)) =>
        /\ last.reply[2] # "unknown"
        /\ last.reply[4] # "medium"

(***************************************************************************)
(* C15.  A message handled at stage greeting leaves the store as the same  *)
(* message would for a user with no session: get_location with the         *)
(* complaint on file_complaint, only stage get_status_id on check_status,  *)
(* only stage greeting otherwise; the replies differ on the last branch    *)
(* alone.                                                                  *)
(***************************************************************************)
AsNewUser ==
    finish(pop(whatsapp_conversations, last.user_phone),
           [user_phone |-> last.user_phone, user_message |-> last.user_message,
            session |-> None],
           last.intent, last.oracle, id_low)

C15_GreetingAsAbsent ==
    (/\ last.endpoint = "webhook"
     /\ Stage(last.session) = "greeting"
     /\ last.outcome = "reply") =>
        \E r \in {AsNewUser} :
            /\ r.outcome = "reply"
            /\ r.store = whatsapp_conversations
            /\ Stage(Stored(last.user_phone)) =
                   (IF last.intent = "file_complaint" THEN "get_location"
                    ELSE IF last.intent = "check_status" THEN "get_status_id"
                    ELSE "greeting")
            /\ (last.intent \in {"file_complaint", "check_status"}) <=>
                   (r.reply = last.reply)

C15_Witness ==
    /\ last.endpoint = "webhook"
    /\ Stage(last.session) = "greeting"
    /\ last.intent = "check_status"
    /\ Stored(last.user_phone) = [stage |-> "get_status_id"]

(***************************************************************************)
(* C16.  A stored session stays stored until its own user sends a message  *)
(* while it is at get_password or get_status_id: nothing else removes it,  *)
(* and a greeting session is left as it is by every step other than its    *)
(* user's file_complaint or check_status message.                          *)
(***************************************************************************)
C16_EntryStays ==
    [][\A u \in DOMAIN whatsapp_conversations :
           /\ u \notin DOMAIN whatsapp_conversations' =>
                  /\ last'.endpoint = "webhook"
                  /\ last'.user_phone = u
                  /\ Stage(whatsapp_conversations[u]) \in {"get_password", "get_status_id"}
           /\ (/\ Stage(whatsapp_conversations[u]) = "greeting"
               /\ ~(/\ last'.endpoint = "webhook"
                    /\ last'.user_phone = u
                    /\ last'.intent \in {"file_complaint", "check_status"})) =>
                  /\ u \in DOMAIN whatsapp_conversations'
                  /\ whatsapp_conversations'[u] = whatsapp_conversations[u]]_vars

C16_Witness ==
    /\ last.endpoint = "webhook"
    /\ Stage(last.session) = "greeting"
    /\ last.intent = "unknown"
    /\ Stored(last.user_phone) = [stage |-> "greeting"]

(***************************************************************************)
(* C17.  A webhook call changes no entry of the store but that of the user *)
(* named after the last colon of From; a call to the analyze endpoint      *)
(* changes no entry at all.                                                *)
(***************************************************************************)
AfterLastColon(From) ==
    CHOOSE u \in {SubSeq(From, i, Len(From)) : i \in 1..(Len(From) + 1)} :
        /\ \A j \in 1..Len(u) : u[j] # ":"
        /\ Len(u) = Len(From) \/ From[Len(From) - Len(u)] = ":"

C17_OnlyOwnEntry ==
    [][/\ last'.endpoint = "webhook" =>
              \A v \in (DOMAIN whatsapp_conversations
                        \cup DOMAIN whatsapp_conversations') \ {AfterLastColon(last'.From)} :
                  get(whatsapp_conversations', v) = get(whatsapp_conversations, v)
       /\ last'.endpoint = "analyze" =>
              whatsapp_conversations' = whatsapp_conversations]_vars

C17_Witness ==
    /\ last.endpoint = "webhook"
    /\ last.From = from_2_nested
    /\ DOMAIN whatsapp_conversations = {last_segment(from_1), last_segment(from_2)}
    /\ Stage(Stored(last_segment(from_1))) = "get_password"
    /\ Stage(Stored(last_segment(from_2))) = "get_status_id"

(***************************************************************************)
(* C18.  An intent returned by detect_intent has the greatest score of all *)
(* intents, the score being the number of distinct lower-cased tokens of   *)
(* the message among the intent's keywords; saying the message twice or in *)
(* another letter case changes no score.                                   *)
(***************************************************************************)
upper(s) ==
    [i \in 1..Len(s) |->
        IF \E c \in DOMAIN UpperToLower : UpperToLower[c] = s[i]
        THEN CHOOSE c \in DOMAIN UpperToLower : UpperToLower[c] = s[i]
        ELSE s[i]]

Retold(message) ==
    {message \o <<" ">> \o message, upper(message), lower(message)}

TokenScore(message, lines) ==
    Cardinality({w \in split_set(lower(message)) : w \in keywords(lines)})

C18_MaximalScore ==
    (last.endpoint = "webhook" /\ last.intent # "none") =>
        /\ last.intent # "unknown" =>
               /\ last.intent \in DOMAIN intent_files
               /\ \A name \in DOMAIN intent_files :
                      TokenScore(last.user_message, intent_files[name])
                          <= TokenScore(last.user_message, intent_files[last.intent])
        /\ \A told \in Retold(last.user_message) :
               all_scores(told, intent_files) = all_scores(last.user_message, intent_files)

\* two intents overlap with different scores, and the one returned is not the
\* first that was enumerated
C18_Witness ==
    /\ last.endpoint = "webhook"
    /\ last.intent \in DOMAIN intent_files
    /\ \E name \in DOMAIN intent_files :
           /\ TokenScore(last.user_message, intent_files[name]) > 0
           /\ TokenScore(last.user_message, intent_files[name])
                  < TokenScore(last.user_message, intent_files[last.intent])
    /\ upper(last.user_message) # last.user_message
    /\ lower(last.user_message) # last.user_message

(***************************************************************************)
(* C19.  Every stored session is at greeting, get_location, get_password   *)
(* or get_status_id, never at get_description or at a stage no branch      *)
(* handles, and every reply the webhook returns is a non-empty text.       *)
(***************************************************************************)
StoredStages == {"greeting", "get_location", "get_password", "get_status_id"}

C19_StagesAndReplies ==
    /\ \A u \in DOMAIN whatsapp_conversations :
           Stage(whatsapp_conversations[u]) \in StoredStages
    /\ (last.endpoint = "webhook" /\ last.outcome = "reply") => NonEmpty(last.reply)

\* the complaint is taken from the first message: the description is stored
\* without the session ever being at get_description
C19_Witness ==
    /\ last.endpoint = "webhook"
    /\ falsy(last.session)
    /\ last.outcome = "reply"
    /\ NonEmpty(last.reply)
    /\ Stage(Stored(last.user_phone)) = "get_location"
    /\ "description" \in DOMAIN Stored(last.user_phone)

(***************************************************************************)
(* C20.  Ids are drawn with no regard to those already given out: whenever *)
(* a flow is about to complete, every id issued so far can be issued       *)
(* again, so two completed flows can hold the same id.                     *)
(***************************************************************************)
Reissues(id) ==
    \E request \in IssueRequests :
        /\ WebhookIssuing(request[1], request[2])
        /\ issued'[id] = 2

C20_IssuedIdsCanRecur ==
    \A id \in DOMAIN issued :
        (\E request \in IssueRequests :
            Stage(Stored(last_segment(request[1]))) = "get_password") =>
            ENABLED Reissues(id)

C20_Witness ==
    /\ last.endpoint = "webhook"
    /\ HasComplaintId(last.reply)
    /\ last.reply[2][2] \in DOMAIN issued
    /\ issued[last.reply[2][2]] = 2
====
